---- MODULE Spec2Model ----
(***************************************************************************)
(* nordpool2influxdb: one process invocation of main() -> run() ->         *)
(* collect_data(), as a state machine.  The external collaborators (config *)
(* file, price provider, InfluxDB) are modelled at their interface: what   *)
(* they return or raise is chosen nondeterministically, and every call the *)
(* program makes to them is recorded.                                      *)
(*                                                                         *)
(* Number representation.  Raw prices are integers counting tenths of a    *)
(* currency unit (100 is 10.0, -50 is -5.0).  Converted prices are         *)
(* integers counting millionths (1240000 is 1.24).  Instants count         *)
(* 15-minute steps from 2024-01-01T00:00:00 UTC.                           *)
(***************************************************************************)
EXTENDS Integers, Sequences, FiniteSets, TLC

VARIABLES
    pc,             \* position of the single control flow
    dry_run,        \* AppArgs.dry_run
    config,         \* the tree yaml.safe_load returned
    checker_config, \* the validated CheckerConfig
    influx,         \* the InfluxDBClient's constructor parameters
    client,         \* the aiohttp ClientSession: "none", "open", "closed"
    fetchCalls,     \* calls of AioPrices.fetch, with their outcome
    data,           \* what fetch returned
    area_prices,    \* AreaPrices.parse_obj(data)
    json_body,      \* the built points
    writeCalls,     \* calls of influx.write_points, with their outcome
    log,            \* logging.debug records of collect_data
    exception,      \* the exception that ended the run, "none" if none
    exit_code       \* process exit status, NotExited while running

vars == <<pc, dry_run, config, checker_config, influx, client, fetchCalls,
          data, area_prices, json_body, writeCalls, log, exception, exit_code>>

(***************************************************************************)
(* Bounds of the model.                                                    *)
(***************************************************************************)
MaxInstant == 1     \* start instants range over 0..MaxInstant
MaxEntries == 2     \* hourly entries in one provider response, all areas

(***************************************************************************)
(* Program constants.                                                      *)
(***************************************************************************)
DefaultPort == 8086
Resolution == 15
Vat24Hundredths == 124      \* the factor 1.24
CentsFactor == 100          \* the factor 100
Thousand == 1000            \* the divisor 1000
MicroPerMilli == 1000       \* thousandths to millionths, before dividing
NotExited == -1

DefaultDatabase == "energy"
Measurement == "nordpool_price"
NoPolicy == "None"          \* retention_policy left unset: Optional -> None
AreaPricesMsg == "%s"
DryRunMsg == "Send data (dry-run): %s"

(***************************************************************************)
(* Input domains.                                                          *)
(***************************************************************************)
AreaCodes == {"SE1", "FI"}
RawPrices == {-50, 0, 100}

SeqsUpTo(S, n) == UNION {[1..k -> S] : k \in 0..n}

\* A start as the provider delivers it: a UTC instant ("utc": a string with
\* a Z suffix or an aware datetime), a naive one (no zone), or absent.
\* A value: a number, or something float() rejects.
WellFormedEntries ==
    {[start |-> [kind |-> "utc", instant |-> i],
      value |-> [kind |-> "number", tenths |-> 100],
      extra |-> FALSE] : i \in 0..MaxInstant}
    \cup {[start |-> [kind |-> "utc", instant |-> 0],
           value |-> [kind |-> "number", tenths |-> v],
           extra |-> FALSE] : v \in RawPrices}

SpecialEntries ==
    {[start |-> [kind |-> "utc", instant |-> 0],
      value |-> [kind |-> "number", tenths |-> 100], extra |-> TRUE],
     [start |-> [kind |-> "naive", instant |-> 0],
      value |-> [kind |-> "number", tenths |-> 100], extra |-> FALSE],
     [start |-> [kind |-> "missing", instant |-> 0],
      value |-> [kind |-> "number", tenths |-> 100], extra |-> FALSE],
     [start |-> [kind |-> "unparseable", instant |-> 0],
      value |-> [kind |-> "number", tenths |-> 100], extra |-> FALSE],
     [start |-> [kind |-> "utc", instant |-> 0],
      value |-> [kind |-> "nonnumeric", tenths |-> 0], extra |-> FALSE]}

HourlyEntries == WellFormedEntries \cup SpecialEntries

\* The key order of the area mapping: sequences of distinct area codes.
AreaOrders ==
    {o \in SeqsUpTo(AreaCodes, Cardinality(AreaCodes)) :
        \A i, j \in 1..Len(o) : i # j => o[i] # o[j]}

\* The entries es dealt to the areas of o: all to the only area, or cut at k.
Deal(o, es, k) ==
    [i \in 1..Len(o) |->
        [area |-> o[i],
         values |-> IF Len(o) = 1 THEN es
                    ELSE IF i = 1 THEN SubSeq(es, 1, k)
                    ELSE SubSeq(es, k + 1, Len(es))]]

AreaMappings ==
    UNION {{Deal(o, es, k) : o \in {p \in AreaOrders : Len(p) = 2},
                             k \in 0..Len(es)}
           \cup {Deal(o, es, 0) : o \in {p \in AreaOrders : Len(p) = 1}}
           : es \in SeqsUpTo(HourlyEntries, MaxEntries)}
    \cup {<<>>}

\* Top-level shapes: "wrapped" is {"areas": {<area>: {"values": [...]}}},
\* "direct" is {<area>: {"values": [...]}}, "scalar" is not a mapping.
Responses ==
    {[shape |-> s, areas |-> m] : s \in {"wrapped", "direct"}, m \in AreaMappings}
    \cup {[shape |-> "scalar", areas |-> <<>>]}

NoData == [shape |-> "none", areas |-> <<>>]

\* The config tree: host may be absent, nordpool.areas may be empty.
ConfigTrees ==
    [hasHost : BOOLEAN,
     retention_policy : {NoPolicy, "one_year"},
     areas : {<<>>, <<"SE1">>},
     currency : {"EUR"}]

NoConfig ==
    [hasHost |-> FALSE, retention_policy |-> NoPolicy, areas |-> <<>>,
     currency |-> ""]

NoInflux == [host |-> "", port |-> 0, database |-> ""]

(***************************************************************************)
(* Pure functions.                                                         *)
(***************************************************************************)
\* Variant: an entry without start is given a default instead of rejected.
StartOkDefaulted(s) == s.kind \in {"utc", "naive", "missing"}

\* pydantic's datetime validation of HourlyPrice.start
StartOk(s) == s.kind \in {"utc", "naive"}

ParseDatetime(s) == [instant |-> s.instant, aware |-> s.kind = "utc"]

\* Variant: the zone is lost in rendering.
IsoFormatNoOffset(d) == [instant |-> d.instant, offset |-> ""]

\* datetime.isoformat(): an aware UTC instant carries the +00:00 offset
IsoFormat(d) ==
    [instant |-> d.instant, offset |-> IF d.aware THEN "+00:00" ELSE ""]

\* pydantic's float validation of HourlyPrice.value
ValueOk(v) == v.kind = "number"

HourlyPriceOk(e) == StartOk(e.start) /\ ValueOk(e.value)

\* HourlyPrice(**e): the two declared fields, extras dropped
ParseHourlyPrice(e) ==
    [start |-> ParseDatetime(e.start), value |-> e.value.tenths]

AreaValuesOk(a) == \A i \in 1..Len(a.values) : HourlyPriceOk(a.values[i])

ParseAreaValues(a) ==
    [area |-> a.area,
     values |-> [i \in 1..Len(a.values) |-> ParseHourlyPrice(a.values[i])]]

\* AreaPrices.parse_obj(d) succeeds: the field "areas" is present and every
\* area and entry under it validates
ParseObjOk(d) ==
    /\ d.shape = "wrapped"
    /\ \A i \in 1..Len(d.areas) : AreaValuesOk(d.areas[i])

ParseObj(d) == [i \in 1..Len(d.areas) |-> ParseAreaValues(d.areas[i])]

\* Variant: negative prices are clamped to zero.
convert_price_clamped(price) ==
    IF price < 0 THEN 0
    ELSE ((Vat24Hundredths * price * CentsFactor) * MicroPerMilli) \div Thousand

\* (1.24 * price * 100) / 1000, tenths in, millionths out.  The product
\* 124 * price * 100 counts thousandths (hundredths times tenths); it is
\* rescaled to a unit a thousand times finer so that the division is exact.
convert_price_to_cents_with_vat24(price) ==
    ((Vat24Hundredths * price * CentsFactor) * MicroPerMilli) \div Thousand

\* one point of the json body
Point(area, d) ==
    [measurement |-> Measurement,
     tags |-> [area |-> area],
     time |-> IsoFormat(d.start),
     fields |-> [price |-> convert_price_to_cents_with_vat24(d.value)]]

RECURSIVE Flatten(_)
Flatten(ss) == IF ss = <<>> THEN <<>> ELSE Head(ss) \o Flatten(Tail(ss))

\* Variant: the areas are visited last to first.
BuildRecordsReversed(ap) ==
    Flatten([i \in 1..Len(ap) |->
        [j \in 1..Len(ap[Len(ap) + 1 - i].values) |->
            Point(ap[Len(ap) + 1 - i].area, ap[Len(ap) + 1 - i].values[j])]])

\* the list comprehension: for area, price_data in areas.items()
\*                         for data in price_data.values
BuildRecords(ap) ==
    Flatten([i \in 1..Len(ap) |->
        [j \in 1..Len(ap[i].values) |-> Point(ap[i].area, ap[i].values[j])]])

\* CheckerConfig(**config): host is the only field without default whose
\* absence the tree models; list[str] accepts the empty list
ConfigOk(c) == c.hasHost

(***************************************************************************)
(* The run.                                                                *)
(***************************************************************************)
Init ==
    /\ pc = "parse_args"
    /\ dry_run = FALSE
    /\ config = NoConfig
    /\ checker_config = NoConfig
    /\ influx = NoInflux
    /\ client = "none"
    /\ fetchCalls = <<>>
    /\ data = NoData
    /\ area_prices = <<>>
    /\ json_body = <<>>
    /\ writeCalls = <<>>
    /\ log = <<>>
    /\ exception = "none"
    /\ exit_code = NotExited

\* an exception nobody catches: asyncio.run re-raises it, the interpreter
\* exits with status 1
Raise(exc) ==
    /\ pc' = "failed"
    /\ exception' = exc
    /\ exit_code' = 1

\* parse_args(): --dry-run is store_true
ParseArgs ==
    /\ pc = "parse_args"
    /\ \E d \in BOOLEAN : dry_run' = d
    /\ pc' = "open_config"
    /\ UNCHANGED <<config, checker_config, influx, client, fetchCalls, data,
                   area_prices, json_body, writeCalls, log, exception,
                   exit_code>>

\* open(args.config_file) and yaml.safe_load: the file may be unreadable
OpenConfig ==
    /\ pc = "open_config"
    /\ \/ /\ \E c \in ConfigTrees : config' = c
          /\ pc' = "validate_config"
          /\ UNCHANGED <<exception, exit_code>>
       \/ /\ Raise("OSError")
          /\ UNCHANGED config
    /\ UNCHANGED <<dry_run, checker_config, influx, client, fetchCalls, data,
                   area_prices, json_body, writeCalls, log>>

\* checker_config = CheckerConfig(**config)
ValidateConfig ==
    /\ pc = "validate_config"
    /\ IF ConfigOk(config)
       THEN /\ checker_config' = config
            /\ pc' = "connect_influx"
            /\ UNCHANGED <<exception, exit_code>>
       ELSE /\ Raise("ConfigValidationError")
            /\ UNCHANGED checker_config
    /\ UNCHANGED <<dry_run, config, influx, client, fetchCalls, data,
                   area_prices, json_body, writeCalls, log>>

\* influx = InfluxDBClient(host, port, database): no connection is made yet
ConnectInflux ==
    /\ pc = "connect_influx"
    /\ influx' = [host |-> "influx.local", port |-> DefaultPort,
                  database |-> DefaultDatabase]
    /\ pc' = "create_session"
    /\ UNCHANGED <<dry_run, config, checker_config, client, fetchCalls, data,
                   area_prices, json_body, writeCalls, log, exception,
                   exit_code>>

\* client = aiohttp.client.ClientSession(); prices = AioPrices(...)
CreateSession ==
    /\ pc = "create_session"
    /\ client' = "open"
    /\ pc' = "fetch"
    /\ UNCHANGED <<dry_run, config, checker_config, influx, fetchCalls, data,
                   area_prices, json_body, writeCalls, log, exception,
                   exit_code>>

FetchRequest(raised) ==
    [currency |-> checker_config.currency, areas |-> checker_config.areas,
     resolution |-> Resolution, raised |-> raised]

\* Variant: the session is scoped to the fetch and closed when it ends.
FetchScoped ==
    /\ pc = "fetch"
    /\ client' = "closed"
    /\ \/ /\ \E r \in Responses : data' = r
          /\ fetchCalls' = Append(fetchCalls, FetchRequest(FALSE))
          /\ pc' = "parse"
          /\ UNCHANGED <<exception, exit_code>>
       \/ /\ fetchCalls' = Append(fetchCalls, FetchRequest(TRUE))
          /\ Raise("FetchError")
          /\ UNCHANGED data
    /\ UNCHANGED <<dry_run, config, checker_config, influx,
                   area_prices, json_body, writeCalls, log>>

\* data = await prices.fetch(resolution=15, areas=nordpool_config.areas)
Fetch ==
    /\ pc = "fetch"
    /\ \/ /\ \E r \in Responses : data' = r
          /\ fetchCalls' = Append(fetchCalls, FetchRequest(FALSE))
          /\ pc' = "parse"
          /\ UNCHANGED <<exception, exit_code>>
       \/ /\ fetchCalls' = Append(fetchCalls, FetchRequest(TRUE))
          /\ Raise("FetchError")
          /\ UNCHANGED data
    /\ UNCHANGED <<dry_run, config, checker_config, influx, client,
                   area_prices, json_body, writeCalls, log>>

\* area_prices = AreaPrices.parse_obj(data); logging.debug(area_prices)
Parse ==
    /\ pc = "parse"
    /\ IF ParseObjOk(data)
       THEN /\ area_prices' = ParseObj(data)
            /\ log' = Append(log, [msg |-> AreaPricesMsg,
                                   args |-> ParseObj(data)])
            /\ pc' = "build"
            /\ UNCHANGED <<exception, exit_code>>
       ELSE /\ Raise("ValidationError")
            /\ UNCHANGED <<area_prices, log>>
    /\ UNCHANGED <<dry_run, config, checker_config, influx, client,
                   fetchCalls, data, json_body, writeCalls>>

\* json_body = [ ... ]
Build ==
    /\ pc = "build"
    /\ json_body' = BuildRecords(area_prices)
    /\ pc' = "sink"
    /\ UNCHANGED <<dry_run, config, checker_config, influx, client,
                   fetchCalls, data, area_prices, writeCalls, log, exception,
                   exit_code>>

\* Variant: the retention policy is not passed on.
WriteRequestNoPolicy(raised) ==
    [points |-> json_body, retention_policy |-> NoPolicy, raised |-> raised]

WriteRequest(raised) ==
    [points |-> json_body,
     retention_policy |-> checker_config.retention_policy,
     raised |-> raised]

\* Variant: the write is issued in dry-run mode too.
SinkWritesInDryRun ==
    /\ pc = "sink"
    /\ log' = IF dry_run
              THEN Append(log, [msg |-> DryRunMsg, args |-> json_body])
              ELSE log
    /\ \/ /\ writeCalls' = Append(writeCalls, WriteRequest(FALSE))
          /\ pc' = "close"
          /\ UNCHANGED <<exception, exit_code>>
       \/ /\ writeCalls' = Append(writeCalls, WriteRequest(TRUE))
          /\ Raise("WriteError")
    /\ UNCHANGED <<dry_run, config, checker_config, influx, client,
                   fetchCalls, data, area_prices, json_body>>

\* Variant: a failing write is swallowed, as "ignore errors" would have it.
SinkIgnoresErrors ==
    /\ pc = "sink"
    /\ IF dry_run
       THEN /\ log' = Append(log, [msg |-> DryRunMsg, args |-> json_body])
            /\ UNCHANGED writeCalls
       ELSE /\ \E r \in BOOLEAN :
                  writeCalls' = Append(writeCalls, WriteRequest(r))
            /\ UNCHANGED log
    /\ pc' = "close"
    /\ UNCHANGED <<dry_run, config, checker_config, influx, client,
                   fetchCalls, data, area_prices, json_body, exception,
                   exit_code>>

\* if dry_run: logging.debug(...) else: influx.write_points(...)
Sink ==
    /\ pc = "sink"
    /\ IF dry_run
       THEN /\ log' = Append(log, [msg |-> DryRunMsg, args |-> json_body])
            /\ pc' = "close"
            /\ UNCHANGED <<writeCalls, exception, exit_code>>
       ELSE \/ /\ writeCalls' = Append(writeCalls, WriteRequest(FALSE))
               /\ pc' = "close"
               /\ UNCHANGED <<log, exception, exit_code>>
            \/ /\ writeCalls' = Append(writeCalls, WriteRequest(TRUE))
               /\ Raise("WriteError")
               /\ UNCHANGED log
    /\ UNCHANGED <<dry_run, config, checker_config, influx, client,
                   fetchCalls, data, area_prices, json_body>>

\* await client.close(); collect_data, run and main return: exit status 0
Close ==
    /\ pc = "close"
    /\ client' = "closed"
    /\ pc' = "done"
    /\ exit_code' = 0
    /\ UNCHANGED <<dry_run, config, checker_config, influx, fetchCalls, data,
                   area_prices, json_body, writeCalls, log, exception>>

Next ==
    \/ ParseArgs
    \/ OpenConfig
    \/ ValidateConfig
    \/ ConnectInflux
    \/ CreateSession
    \/ Fetch
    \/ Parse
    \/ Build
    \/ Sink
    \/ Close

Spec == Init /\ [][Next]_vars

(***************************************************************************)
(* Vocabulary of the properties.                                           *)
(***************************************************************************)
MaxRawTenths == 100     \* the transform is also checked on -MaxRawTenths..MaxRawTenths

Terminated == pc \in {"done", "failed"}
PastParse == pc \in {"build", "sink", "close", "done", "failed"} /\ data # NoData
PastBuild == pc \in {"sink", "close", "done"}
     \/ (pc = "failed" /\ exception = "WriteError")
PastSink == pc \in {"close", "done"} \/ (pc = "failed" /\ exception = "WriteError")

DryRunLog == SelectSeq(log, LAMBDA e : e.msg = DryRunMsg)

\* the hourly entries of a response, areas in response order
RECURSIVE FlatEntries(_)
FlatEntries(as) ==
    IF as = <<>> THEN <<>> ELSE Head(as).values \o FlatEntries(Tail(as))

\* the area code each of those entries sits under
RECURSIVE FlatAreas(_)
FlatAreas(as) ==
    IF as = <<>> THEN <<>>
    ELSE [j \in 1..Len(Head(as).values) |-> Head(as).area] \o FlatAreas(Tail(as))

RECURSIVE TotalEntries(_)
TotalEntries(as) ==
    IF as = <<>> THEN 0 ELSE Len(Head(as).values) + TotalEntries(Tail(as))

BadStart(d) ==
    \E i \in 1..Len(d.areas) : \E j \in 1..Len(d.areas[i].values) :
        d.areas[i].values[j].start.kind \in {"missing", "unparseable"}
BadValue(d) ==
    \E i \in 1..Len(d.areas) : \E j \in 1..Len(d.areas[i].values) :
        d.areas[i].values[j].value.kind = "nonnumeric"

\* the example response and record of the specification
ExampleEntry ==
    [start |-> [kind |-> "utc", instant |-> 0],
     value |-> [kind |-> "number", tenths |-> 100], extra |-> FALSE]
ExampleAreas == <<[area |-> "SE1", values |-> <<ExampleEntry>>]>>
ExampleDirect == [shape |-> "direct", areas |-> ExampleAreas]
ExampleWrapped == [shape |-> "wrapped", areas |-> ExampleAreas]
ExampleRecord ==
    [measurement |-> "nordpool_price", tags |-> [area |-> "SE1"],
     time |-> [instant |-> 0, offset |-> "+00:00"],
     fields |-> [price |-> 1240000]]

(***************************************************************************)
(* C1.  In a dry-run run write_points is never invoked; the full record    *)
(* list goes to the log instead, and such a run can fail only in the       *)
(* config, fetch or parse stage, never with a write error.                 *)
(***************************************************************************)
C1_DryRunNeverWrites ==
    dry_run =>
        /\ writeCalls = <<>>
        /\ exception # "WriteError"
        /\ pc = "failed" =>
              exception \in {"OSError", "ConfigValidationError", "FetchError",
                             "ValidationError"}
        /\ pc \in {"close", "done"} =>
              /\ Len(DryRunLog) = 1
              /\ DryRunLog[1].args = json_body
              /\ Len(json_body) = TotalEntries(data.areas)

C1_Witness ==
    /\ dry_run
    /\ pc = "done"
    /\ Len(json_body) = 2
    /\ Len(DryRunLog) = 1

(***************************************************************************)
(* C2.  What a dry-run run logs is exactly the batch a writing run passes  *)
(* in its single write_points call for the same response: both are the     *)
(* whole record sequence built from the response, and the write carries    *)
(* the configured retention policy.                                        *)
(***************************************************************************)
C2_DryRunEqualsWriteBatch ==
    PastSink =>
        LET batch == BuildRecords(ParseObj(data)) IN
        IF dry_run
        THEN /\ Len(DryRunLog) = 1
             /\ DryRunLog[1].args = batch
             /\ writeCalls = <<>>
        ELSE /\ Len(writeCalls) = 1
             /\ writeCalls[1].points = batch
             /\ writeCalls[1].retention_policy = config.retention_policy
             /\ DryRunLog = <<>>

C2_Witness ==
    /\ ~dry_run
    /\ pc = "done"
    /\ Len(writeCalls) = 1
    /\ Len(writeCalls[1].points) = 2
    /\ writeCalls[1].retention_policy = "one_year"

(***************************************************************************)
(* C3.  Every run that created the HTTP session has closed it by the time  *)
(* it terminates, on every exit path.                                      *)
(***************************************************************************)
C3_SessionClosedOnEveryExit ==
    (Terminated /\ client # "none") => client = "closed"

C5_EmptyAreasRejected ==
    /\ client # "none" => Len(checker_config.areas) >= 1
    /\ \A i \in 1..Len(fetchCalls) : Len(fetchCalls[i].areas) >= 1

(***************************************************************************)
(* C6, as stated.  A response with an entry lacking a parseable start, an  *)
(* entry with a non-numeric value, or a top level that is not keyed by     *)
(* area code fails to parse: no records, no write, no dry-run log.         *)
(***************************************************************************)
C6_Original ==
    (PastParse /\ (BadStart(data) \/ BadValue(data) \/ data.shape # "direct")) =>
        /\ exception = "ValidationError"
        /\ json_body = <<>> /\ writeCalls = <<>> /\ DryRunLog = <<>>

(***************************************************************************)
(* C6, amended.  A response with an entry lacking a parseable start, an    *)
(* entry with a non-numeric value, or a top level without the "areas"      *)
(* mapping (keyed directly by area code, or no mapping at all) fails to    *)
(* parse: no records are built, and neither the write nor the dry-run log  *)
(* occurs.  Nothing else fails the parse: entries with extra fields are    *)
(* accepted.                                                               *)
(***************************************************************************)
C6_MalformedRejected ==
    PastParse =>
        IF BadStart(data) \/ BadValue(data) \/ data.shape # "wrapped"
        THEN /\ pc = "failed"
             /\ exception = "ValidationError"
             /\ area_prices = <<>> /\ json_body = <<>>
             /\ writeCalls = <<>> /\ DryRunLog = <<>>
        ELSE /\ exception # "ValidationError"
             /\ Len(area_prices) = Len(data.areas)

C6_Witness ==
    /\ pc = "failed"
    /\ exception = "ValidationError"
    /\ data.shape = "wrapped"
    /\ BadStart(data)
    /\ ~BadValue(data)

(***************************************************************************)
(* C7, as stated.  The response {"SE1": {"values": [{start, value}]}},     *)
(* keyed directly by area code, is accepted and yields the one record      *)
(* nordpool_price / area SE1 / 2024-01-01T00:00:00+00:00 / price 1.24.     *)
(***************************************************************************)
C7_Original ==
    (data = ExampleDirect /\ checker_config.areas = <<"SE1">>) =>
        /\ exception # "ValidationError"
        /\ PastBuild => json_body = <<ExampleRecord>>

(***************************************************************************)
(* C7, amended.  A response whose top level holds the mapping "areas",     *)
(* keyed by area code, each area holding a values list of {start, value}   *)
(* entries, is accepted and yields one record per entry; the response      *)
(* {"areas": {"SE1": {"values": [{"start": "2024-01-01T00:00:00Z",         *)
(* "value": 10.0}]}}} yields exactly the one record nordpool_price / area  *)
(* SE1 / 2024-01-01T00:00:00+00:00 / price 1.24.                           *)
(***************************************************************************)
C7_WrappedAccepted ==
    /\ (PastParse /\ data.shape = "wrapped" /\ ~BadStart(data) /\ ~BadValue(data)) =>
          /\ exception # "ValidationError"
          /\ PastBuild => Len(json_body) = TotalEntries(data.areas)
    /\ (data = ExampleWrapped /\ PastBuild) => json_body = <<ExampleRecord>>

C7_Witness ==
    /\ data = ExampleWrapped
    /\ checker_config.areas = <<"SE1">>
    /\ pc = "done"
    /\ json_body = <<ExampleRecord>>

(***************************************************************************)
(* C8.  The built sequence is the concatenation, over areas in response    *)
(* order, of one record per entry in the area's order: measurement         *)
(* nordpool_price, tag area the entry's own area, time the entry's start   *)
(* in ISO-8601, price the transform of its value.  Its length is the total *)
(* number of entries, and building again gives the same sequence.          *)
(***************************************************************************)
C8_RecordsFollowEntries ==
    PastBuild =>
        LET es == FlatEntries(data.areas)
            codes == FlatAreas(data.areas) IN
        /\ Len(json_body) = TotalEntries(data.areas)
        /\ Len(json_body) = Len(es)
        /\ \A k \in 1..Len(es) :
              /\ json_body[k].measurement = "nordpool_price"
              /\ json_body[k].tags = [area |-> codes[k]]
              /\ json_body[k].time.instant = es[k].start.instant
              /\ json_body[k].time.offset =
                    (IF es[k].start.kind = "utc" THEN "+00:00" ELSE "")
              /\ json_body[k].fields =
                    [price |-> convert_price_to_cents_with_vat24(es[k].value.tenths)]
        /\ BuildRecords(area_prices) = json_body

C8_Witness ==
    /\ pc = "done"
    /\ Len(data.areas) = 2
    /\ Len(data.areas[1].values) = 1
    /\ Len(data.areas[2].values) = 1
    /\ json_body[1].tags.area = "FI"
    /\ json_body[2].tags.area = "SE1"
    /\ json_body[1].time # json_body[2].time

(***************************************************************************)
(* C9.  The transform is one linear map for every raw price, negative and  *)
(* zero included: 1000 * transform(x) = 124 * x, so 10.0 gives 1.24 and    *)
(* -5.0 gives -0.62.  With x in tenths and the result in millionths:       *)
(* 1000 * (t / 1000000) = 124 * (x / 10), that is 10 * t = 124000 * x.     *)
(***************************************************************************)
C9_TransformLinear ==
    \* the function does not depend on the state: its range is swept once
    /\ pc = "parse_args" =>
          \A x \in (-MaxRawTenths)..MaxRawTenths :
              10 * convert_price_to_cents_with_vat24(x) = 124000 * x
    /\ PastBuild =>
          LET es == FlatEntries(data.areas) IN
          \A k \in 1..Len(json_body) :
              /\ 10 * json_body[k].fields.price = 124000 * es[k].value.tenths
              /\ es[k].value.tenths = 100 => json_body[k].fields.price = 1240000
              /\ es[k].value.tenths = -50 => json_body[k].fields.price = -620000
              /\ es[k].value.tenths = 0 => json_body[k].fields.price = 0

C9_Witness ==
    /\ pc = "done"
    /\ Len(json_body) = 2
    /\ json_body[1].fields.price = -620000
    /\ json_body[2].fields.price = 0

====
